---- MODULE Spec2Model ----
(***************************************************************************)
(* A model of the chat application of src/app.py: the conversation store   *)
(* (tables conversations and messages), the request handlers /api/chat,    *)
(* /api/regenerate, GET and DELETE /api/conversations/<id>, and the two    *)
(* provider calls (OpenRouter, then Gemini) each handler makes.            *)
(*                                                                         *)
(* Texts are sequences of characters.  An Arabic letter is written by its  *)
(* name ("meem"), a Latin letter by itself ("H", "h"), a blank by " ".     *)
(* A fixed string of the program whose letters no code looks at (a canned  *)
(* reply, a provider's answer) is a one-character text.                    *)
(***************************************************************************)
EXTENDS Integers, Sequences, FiniteSets

(***************************************************************************)
(* Bounds of the model.                                                    *)
(***************************************************************************)
MaxMsgs == 2       \* rows ever inserted into table messages
MaxClock == 1      \* readings of datetime.utcnow() are 0..MaxClock
MaxUsers == 2      \* rows ever inserted into table users

(***************************************************************************)
(* Program constants.                                                      *)
(***************************************************************************)
TitleMax == 100    \* titles longer than this are cut
TitleCut == 97     \* ... to this many characters plus "..."
UuidLen == 36      \* len(str(uuid.uuid4()))

(***************************************************************************)
(* Text helpers: str.strip(), str.lower(), the `in` operator, slicing.     *)
(***************************************************************************)
Whitespace == {" "}

RECURSIVE LStrip(_)
LStrip(s) ==
  IF s # <<>> /\ Head(s) \in Whitespace THEN LStrip(Tail(s)) ELSE s

RECURSIVE RStrip(_)
RStrip(s) ==
  IF s # <<>> /\ s[Len(s)] \in Whitespace
  THEN RStrip(SubSeq(s, 1, Len(s) - 1)) ELSE s

Strip(s) == RStrip(LStrip(s))

LowerChar(c) == IF c = "H" THEN "h" ELSE IF c = "I" THEN "i" ELSE c

Lower(s) == [i \in 1..Len(s) |-> LowerChar(s[i])]

\* Python's `key in text` for strings: key occurs as a contiguous substring.
Contains(text, key) ==
  \E i \in 0..(Len(text) - Len(key)) : SubSeq(text, i + 1, i + Len(key)) = key

(***************************************************************************)
(* offline_responses and default_offline_response.  The dict keeps its     *)
(* insertion order; OfflineKeys lists the keys in that order.              *)
(***************************************************************************)
KeySalam == <<"alef","lam","seen","lam","alef","meem"," ","ain","lam","yeh","kaf","meem">>
KeyKayfa == <<"kaf","yeh","feh"," ","hah","alef","lam","kaf">>
KeyMarhaba == <<"meem","reh","hah","beh","alef">>
KeyShukran == <<"sheen","kaf","reh","alef">>
KeyMaaSalama == <<"meem","ain"," ","alef","lam","seen","lam","alef","meem","teh_marbuta">>

OfflineKeys == <<KeySalam, KeyKayfa, KeyMarhaba, KeyShukran, KeyMaaSalama>>

OfflineReplies ==
  << <<"REPLY_SALAM">>, <<"REPLY_KAYFA">>, <<"REPLY_MARHABA">>,
     <<"REPLY_SHUKRAN">>, <<"REPLY_MAA_SALAMA">> >>

offline_responses(key) ==
  OfflineReplies[CHOOSE i \in 1..Len(OfflineKeys) : OfflineKeys[i] = key]

default_offline_response == <<"REPLY_DEFAULT">>

\* A scan that takes a key only when the whole message equals it.
RECURSIVE OfflineScanExact(_, _)
OfflineScanExact(user_msg_lower, i) ==
  IF i > Len(OfflineKeys) THEN default_offline_response
  ELSE IF user_msg_lower = Lower(OfflineKeys[i])
       THEN OfflineReplies[i]
       ELSE OfflineScanExact(user_msg_lower, i + 1)

\* A scan that never matches.
OfflineScanDefault(user_msg_lower, i) == default_offline_response

\* The loop of chat(): the first key, in dict order, contained in the
\* lower-cased message decides; without one the default is used.
RECURSIVE OfflineScan(_, _)
OfflineScan(user_msg_lower, i) ==
  IF i > Len(OfflineKeys) THEN default_offline_response
  ELSE IF Contains(user_msg_lower, Lower(OfflineKeys[i]))
       THEN OfflineReplies[i]
       ELSE OfflineScan(user_msg_lower, i + 1)

\* An offline branch that finds nothing to say.
OfflineReplyNone(user_message) == <<>>

OfflineReply(user_message) == OfflineScan(Lower(user_message), 1)

\* initial_title of a new conversation.
InitialTitle(user_message) ==
  IF Len(user_message) > TitleMax
  THEN SubSeq(user_message, 1, TitleCut) \o <<".", ".", ".">>
  ELSE user_message


(***************************************************************************)
(* The state.                                                              *)
(*   OPENROUTER_API_KEY, GEMINI_API_KEY  TRUE when the key is configured   *)
(*   conversations   rows of table conversations, by id                    *)
(*   messages        rows of table messages, by id                         *)
(*   next_conv       ids uuid.uuid4() has given out so far, plus one       *)
(*   next_msg        the messages.id sequence                              *)
(*   now             the last reading of datetime.utcnow()                 *)
(*   req             the requests in flight: position and local variables  *)
(*   deleted         ids of the conversations DELETE has removed           *)
(*   users           rows of table users, by id                            *)
(*   next_user       the users.id sequence                                 *)
(*   adm             the admin requests in flight                          *)
(***************************************************************************)
VARIABLES OPENROUTER_API_KEY, GEMINI_API_KEY, conversations, messages,
          next_conv, next_msg, now, req, deleted, users, next_user, adm

vars == <<OPENROUTER_API_KEY, GEMINI_API_KEY, conversations, messages,
          next_conv, next_msg, now, req, deleted, users, next_user, adm>>

config == <<OPENROUTER_API_KEY, GEMINI_API_KEY>>
store == <<conversations, messages, next_conv, next_msg, deleted>>
accounts == <<users, next_user, adm>>

\* The worker threads that serve requests.
Workers == {1, 2}

\* A request's conversation_id: NoId when the field is absent (None),
\* BogusUuid when it is a string of UuidLen characters no conversation ever
\* had, ShortId when it is a shorter string, else an id uuid4() has given out.
NoId == 0
BogusUuid == -1      \* 36 characters, never given out
ShortId == -2        \* a string that is not 36 characters long
IdLen(id) == IF id = ShortId THEN 3 ELSE UuidLen

(***************************************************************************)
(* Inputs: the message texts, the regenerate histories and the provider    *)
(* responses of the behaviours explored.                                   *)
(***************************************************************************)
TextEmpty == <<>>
TextBlank == <<" ", " ">>
TextMarhaba == KeyMarhaba
TextThanks == <<"H", "i", " ">> \o KeyShukran \o <<" ", "H", "i">>
TextHi == <<" ", "H", "i", " ">>
TextLong == [i \in 1..(TitleMax + 1) |-> "x"]

TextBoth == KeyShukran \o <<" ">> \o KeyMarhaba

ChatTexts == {TextEmpty, TextBlank, TextMarhaba, TextHi}

HistUser == [role |-> "user", content |-> <<"H", "i">>]
HistAssistant == [role |-> "assistant", content |-> <<"OLD">>]
HistBlankUser == [role |-> "user", content |-> <<>>]
HistBlank == <<HistBlankUser, HistAssistant>>
HistTwoReplies == <<HistUser, HistAssistant, HistAssistant>>

Histories ==
  { <<>>, <<HistUser>>, <<HistAssistant>>, <<HistUser, HistAssistant>>,
    HistTwoReplies }

\* What the OpenRouter request can come back with: a body with choices and
\* a message content, a body without choices, or an exception.
OpenRouterOutcomes ==
  { [kind |-> "choices", content |-> <<" ", "OR_TEXT", " ">>],
    [kind |-> "choices", content |-> <<" ">>],
    [kind |-> "choices", content |-> <<>>],
    [kind |-> "timeout", content |-> <<>>] }

\* What the Gemini request can come back with: a candidate text, or one of
\* the failures call_gemini_api turns into (None, error).
GeminiOutcomes ==
  { [kind |-> "text", content |-> <<" ", "GEM_TEXT">>],
    [kind |-> "safety", content |-> <<>>] }

(***************************************************************************)
(* Responses.  keys is the set of keys of the JSON body; a field whose key *)
(* is absent holds its zero value.                                         *)
(***************************************************************************)
NoResp ==
  [status |-> 0, keys |-> {}, reply |-> <<>>, conversation_id |-> NoId,
   offline |-> FALSE, error |-> <<>>, api_source |-> "", backup_used |-> FALSE,
   is_new_conversation |-> FALSE, listing |-> <<>>]

ErrorResp(status, error) ==
  [NoResp EXCEPT !.status = status, !.keys = {"error"}, !.error = error]

\* A worker with no request.
Idle ==
  [pc |-> "idle", kind |-> "none", user_message |-> <<>>,
   conversation_id |-> NoId, is_new_conversation |-> FALSE,
   messages_for_api |-> <<>>, last_msg_was_assistant |-> FALSE,
   ai_reply |-> <<>>, error_message |-> <<>>, used_backup |-> FALSE,
   api_source |-> "Offline", resp |-> NoResp,
   messages_history |-> <<>>,
   \* what the request has done so far (kept for the properties)
   sent_id |-> NoId,
   openrouter_calls |-> 0, gemini_calls |-> 0, openrouter_content |-> <<>>,
   user_rows |-> {}, reply_rows |-> {}, updated_rows |-> {},
   save_failed |-> ""]

Done(q, resp) == [q EXCEPT !.pc = "done", !.resp = resp]

\* A worker with no admin request.  outcome is the message flashed.
AdmIdle ==
  [pc |-> "idle", kind |-> "none", current_user |-> 0, user_id |-> 0,
   is_admin |-> FALSE, was_admin |-> FALSE, outcome |-> ""]

(***************************************************************************)
(* The store.                                                              *)
(***************************************************************************)
\* db.session.get(Conversation, id) finds a row.
Resolves(id) == id \in DOMAIN conversations

\* A store that takes a message whatever conversation it names.
ForeignKeyUnchecked(cid) == TRUE

\* A transaction that writes a message of conversation cid and stamps the
\* conversation can commit only while the row is there: the foreign key of
\* messages.conversation_id, and the UPDATE of the conversation's row.
ForeignKeyHolds(cid) == Resolves(cid)

MessagesOf(msgs, cid) == {m \in DOMAIN msgs : msgs[m].conversation_id = cid}

\* What utcnow() can read after it read t: the clock does not run backwards
\* and two readings can be equal.  The readings taken while one transaction
\* is flushed are one instant of this clock.
Readings(t) == {u \in t..(t + 1) : u <= MaxClock}

\* Message(conversation_id, role, content), inserted with id and created_at.
MessageRow(cid, role, content, t) ==
  [conversation_id |-> cid, role |-> role, content |-> content, created_at |-> t]

\* Conversation.add_message: the new row, and updated_at refreshed.
AddMessageRows(msgs, id, cid, role, content, t) ==
  [m \in DOMAIN msgs \cup {id} |->
     IF m = id THEN MessageRow(cid, role, content, t) ELSE msgs[m]]

\* An add_message that leaves updated_at alone.
TouchNothing(convs, cid, t) == convs

\* An add_message that stamps every conversation.
TouchEvery(convs, cid, t) == [c \in DOMAIN convs |-> [convs[c] EXCEPT !.updated_at = t]]

Touch(convs, cid, t) == [convs EXCEPT ![cid].updated_at = t]

\* ORDER BY created_at ASC: every order of the rows of S that agrees with
\* created_at; rows with equal created_at come in any order.
RECURSIVE OrderedBy(_, _)
OrderedBy(msgs, S) ==
  IF S = {} THEN {<<>>}
  ELSE UNION { { <<m>> \o rest : rest \in OrderedBy(msgs, S \ {m}) } :
               m \in {x \in S : \A y \in S : msgs[x].created_at <= msgs[y].created_at} }

\* Conversation.get_ordered_messages
get_ordered_messages(cid) == OrderedBy(messages, MessagesOf(messages, cid))

Transcript(order) ==
  [i \in 1..Len(order) |->
     [role |-> messages[order[i]].role, content |-> messages[order[i]].content]]

\* Message.to_dict / Conversation.to_dict()["messages"]
Listing(order) ==
  [i \in 1..Len(order) |->
     [id |-> order[i], role |-> messages[order[i]].role,
      content |-> messages[order[i]].content,
      created_at |-> messages[order[i]].created_at]]

Init ==
  /\ OPENROUTER_API_KEY \in BOOLEAN
  /\ GEMINI_API_KEY \in BOOLEAN
  /\ conversations = <<>>
  /\ messages = <<>>
  /\ next_conv = 1
  /\ next_msg = 1
  /\ now = 0
  /\ req = [w \in Workers |-> Idle]
  /\ deleted = {}
  /\ users = <<>>
  /\ next_user = 1
  /\ adm = [w \in Workers |-> AdmIdle]

\* A server that takes a request only when no other is being served.
FreeWhenAllIdle(w) ==
  /\ \A v \in Workers : req[v].pc = "idle"
  /\ \A v \in Workers : v >= w

\* A request is taken by the first free worker.
Free(w) ==
  /\ req[w].pc = "idle"
  /\ \A v \in Workers : v < w => req[v].pc # "idle"

\* The conversation ids a client can send.
ClientIds == {NoId, BogusUuid} \cup (1..(next_conv - 1))


(***************************************************************************)
(* The provider calls, shared by chat() and regenerate().                  *)
(***************************************************************************)
\* A fallback that does not look at ai_reply.
TryGeminiAlways(q) == GEMINI_API_KEY

\* `if not ai_reply and GEMINI_API_KEY`
TryGemini(q) == q.ai_reply = <<>> /\ GEMINI_API_KEY

\* A handler that posts to OpenRouter a second time when the first post
\* brought no reply.
AfterOpenRouterRetry(q) ==
  IF OPENROUTER_API_KEY /\ q.ai_reply = <<>> /\ q.openrouter_calls = 1
  THEN [q EXCEPT !.pc = "openrouter"]
  ELSE [q EXCEPT !.pc = IF TryGemini(q) THEN "gemini" ELSE "reply"]

\* Where a handler blocks next once OpenRouter has been dealt with.
AfterOpenRouter(q) ==
  [q EXCEPT !.pc = IF TryGemini(q) THEN "gemini" ELSE "reply"]

\* A handler that posts to OpenRouter whether or not its key is configured.
AfterTranscriptAlways(q) == [q EXCEPT !.pc = "openrouter"]

\* Where a handler blocks next once the transcript is ready.
AfterTranscript(q) ==
  IF OPENROUTER_API_KEY THEN [q EXCEPT !.pc = "openrouter"] ELSE AfterOpenRouter(q)

\* The body of `if OPENROUTER_API_KEY:` once requests.post has come back
\* with `out`.
OpenRouterResult(q, out) ==
  LET called == [q EXCEPT !.openrouter_calls = @ + 1]
  IN CASE out.kind = "choices" /\ out.content # <<>> ->
            [called EXCEPT !.ai_reply = Strip(out.content),
                           !.api_source = "OpenRouter",
                           !.openrouter_content = out.content]
       [] out.kind = "choices" /\ out.content = <<>> ->
            [called EXCEPT !.error_message = <<"openrouter_empty">>]
       [] out.kind = "no_choices" ->
            [called EXCEPT !.error_message = <<"openrouter_no_choices">>]
       [] OTHER ->
            [called EXCEPT !.error_message = <<"openrouter_" \o out.kind>>]

\* call_gemini_api's messages after `if not content: continue`.
GeminiMessages(prompt_messages) ==
  SelectSeq(prompt_messages, LAMBDA m : m.content # <<>>)

\* call_gemini_api: [reply, error, posted], posted telling whether
\* requests.post was reached; `out` is what it came back with.
call_gemini_api(prompt_messages, out) ==
  IF ~GEMINI_API_KEY
  THEN [reply |-> <<>>, error |-> "gemini_no_key", posted |-> FALSE]
  ELSE IF GeminiMessages(prompt_messages) = <<>>
  THEN [reply |-> <<>>, error |-> "gemini_no_content", posted |-> FALSE]
  ELSE IF out.kind = "text" /\ Strip(out.content) # <<>>
  THEN [reply |-> Strip(out.content), error |-> "", posted |-> TRUE]
  ELSE IF out.kind = "text"
  THEN [reply |-> <<>>, error |-> "gemini_empty", posted |-> TRUE]
  ELSE [reply |-> <<>>, error |-> "gemini_" \o out.kind, posted |-> TRUE]

\* The body of `if not ai_reply and GEMINI_API_KEY:`.
GeminiResult(q, out) ==
  LET g == call_gemini_api(q.messages_for_api, out)
      called == IF g.posted
                THEN [q EXCEPT !.gemini_calls = @ + 1] ELSE q
  IN IF g.reply # <<>>
     THEN [called EXCEPT !.ai_reply = g.reply, !.used_backup = TRUE,
                         !.api_source = "Gemini", !.error_message = <<>>]
     ELSE [called EXCEPT !.error_message = @ \o <<g.error>>]

\* requests.post to OpenRouter comes back with `out`.
CallOpenRouter(w, out) ==
  /\ req[w].pc = "openrouter"
  /\ req' = [req EXCEPT ![w] = AfterOpenRouter(OpenRouterResult(req[w], out))]
  /\ UNCHANGED <<config, accounts, store, now>>

\* call_gemini_api returns; its requests.post, if reached, came back with `out`.
CallGemini(w, out) ==
  /\ req[w].pc = "gemini"
  /\ req' = [req EXCEPT ![w] = [GeminiResult(req[w], out) EXCEPT !.pc = "reply"]]
  /\ UNCHANGED <<config, accounts, store, now>>


(***************************************************************************)
(* POST /api/chat                                                          *)
(***************************************************************************)
\* `if not user_message` on the stripped message.
EmptyMessage(user_message) == user_message = <<>>

\* A first transaction that writes a fresh conversation row whether or not
\* the id resolved.
ChatUserRowsFreshRow(q, cid, t) ==
  LET convs == [c \in DOMAIN conversations \cup {cid} |->
                  IF c = cid
                  THEN [title |-> InitialTitle(q.user_message),
                        created_at |-> t, updated_at |-> t]
                  ELSE conversations[c]]
  IN [conversations |-> Touch(convs, cid, t),
      messages |-> AddMessageRows(messages, next_msg, cid, "user", q.user_message, t)]

\* A first transaction that resolves or creates the conversation and adds
\* no message.
ChatUserRowsNoMessage(q, cid, t) ==
  LET convs == IF Resolves(q.conversation_id) THEN conversations
               ELSE [c \in DOMAIN conversations \cup {cid} |->
                       IF c = cid
                       THEN [title |-> InitialTitle(q.user_message),
                             created_at |-> t, updated_at |-> t]
                       ELSE conversations[c]]
  IN [conversations |-> Touch(convs, cid, t), messages |-> messages]

\* The rows of the first transaction of chat(): the conversation resolved
\* or created and the user message added, at instant t.
ChatUserRows(q, cid, t) ==
  LET convs == IF Resolves(q.conversation_id) THEN conversations
               ELSE [c \in DOMAIN conversations \cup {cid} |->
                       IF c = cid
                       THEN [title |-> InitialTitle(q.user_message),
                             created_at |-> t, updated_at |-> t]
                       ELSE conversations[c]]
  IN [conversations |-> Touch(convs, cid, t),
      messages |-> AddMessageRows(messages, next_msg, cid, "user", q.user_message, t)]

\* A handler of the first transaction's failure that logs it and goes on
\* to the providers.
UserSaveFailedContinues(q) == AfterTranscript([q EXCEPT !.save_failed = "user"])

\* `except Exception` around the first transaction: rollback, 500.
UserSaveFailed(q) ==
  Done([q EXCEPT !.conversation_id = NoId, !.save_failed = "user"],
       ErrorResp(500, <<"db_save_user">>))

\* chat() from the request to the commit of the user message.
\*   form: "not_json", "bad_params" (temperature or max_tokens does not
\*   convert), or "json"; db_ok: the transaction commits.
ChatReceive(w, form, text, conversation_id, db_ok) ==
  /\ Free(w)
  /\ LET q0 == [Idle EXCEPT !.kind = "chat", !.user_message = Strip(text)]
         q == [q0 EXCEPT !.conversation_id = conversation_id,
                         !.sent_id = conversation_id]
     IN \/ /\ form = "not_json"
           /\ req' = [req EXCEPT ![w] = Done([Idle EXCEPT !.kind = "chat"],
                                             ErrorResp(415, <<"not_json">>))]
           /\ UNCHANGED <<config, accounts, store, now>>
        \/ /\ form = "bad_params"
           /\ req' = [req EXCEPT ![w] = Done(q0, ErrorResp(500, <<"unexpected">>))]
           /\ UNCHANGED <<config, accounts, store, now>>
        \/ /\ form = "json"
           /\ EmptyMessage(q.user_message)
           /\ req' = [req EXCEPT ![w] = Done(q0, ErrorResp(400, <<"empty_message">>))]
           /\ UNCHANGED <<config, accounts, store, now>>
        \/ /\ form = "json"
           /\ ~EmptyMessage(q.user_message)
           /\ ~db_ok
           /\ req' = [req EXCEPT ![w] = UserSaveFailed(q)]
           /\ UNCHANGED <<config, accounts, store, now>>
        \/ /\ form = "json"
           /\ ~EmptyMessage(q.user_message)
           /\ db_ok
           /\ \E t \in Readings(now) :
                LET is_new == ~Resolves(conversation_id)
                    cid == IF is_new THEN next_conv ELSE conversation_id
                    rows == ChatUserRows(q, cid, t)
                IN /\ conversations' = rows.conversations
                   /\ messages' = rows.messages
                   /\ next_conv' = IF is_new THEN next_conv + 1 ELSE next_conv
                   /\ next_msg' = next_msg + 1
                   /\ now' = t
                   /\ req' = [req EXCEPT ![w] =
                                [q EXCEPT !.pc = "history",
                                          !.conversation_id = cid,
                                          !.is_new_conversation = is_new,
                                          !.user_rows = {m \in DOMAIN rows.messages :
                                                           m \notin DOMAIN messages}]]
           /\ UNCHANGED <<config, accounts, deleted>>

\* db_conversation.get_ordered_messages() after the commit, and the reset
\* of ai_reply, error_message, used_backup, api_source.  The row is
\* reloaded after the commit: a conversation deleted meanwhile raises
\* ObjectDeletedError into the outer handler.
ChatHistory(w) ==
  /\ req[w].pc = "history"
  /\ \/ /\ Resolves(req[w].conversation_id)
        /\ \E order \in get_ordered_messages(req[w].conversation_id) :
             req' = [req EXCEPT ![w] =
                       AfterTranscript([req[w] EXCEPT !.messages_for_api = Transcript(order)])]
     \/ /\ ~Resolves(req[w].conversation_id)
        /\ req' = [req EXCEPT ![w] = Done(req[w], ErrorResp(500, <<"unexpected">>))]
  /\ UNCHANGED <<config, accounts, store, now>>

\* A reply saved under the role of the message it answers.
AssistantRowsAsUser(cid, ai_reply, t) ==
  [conversations |-> Touch(conversations, cid, t),
   messages |-> AddMessageRows(messages, next_msg, cid, "user", ai_reply, t)]

\* The commit of the assistant message: conversations and messages after
\* db_conversation.add_message('assistant', ai_reply) at instant t.
AssistantRows(cid, ai_reply, t) ==
  [conversations |-> Touch(conversations, cid, t),
   messages |-> AddMessageRows(messages, next_msg, cid, "assistant", ai_reply, t)]

\* A handler of the failed save that gives the turn up as the success
\* branch does.
OfflineSaveFailedAborts(q, resp) ==
  Done([q EXCEPT !.save_failed = "offline"], ErrorResp(500, <<"db_save_reply">>))

\* `except Exception` around the save of the canned reply: rollback, and
\* on to the return of the offline body.
OfflineSaveFailed(q, resp) == Done([q EXCEPT !.save_failed = "offline"], resp)

\* `if not ai_reply:` of chat(): the canned reply, saved if the store
\* takes it, and returned with 200 either way.
ChatOffline(w, db_ok) ==
  /\ req[w].pc = "reply"
  /\ req[w].kind = "chat"
  /\ req[w].ai_reply = <<>>
  /\ LET q == req[w]
         ai_reply == OfflineReply(q.user_message)
         resp == [NoResp EXCEPT
                    !.status = 200,
                    !.keys = {"reply", "conversation_id", "offline", "error",
                              "api_source", "is_new_conversation"},
                    !.reply = ai_reply, !.conversation_id = q.conversation_id,
                    !.offline = TRUE, !.error = q.error_message,
                    !.api_source = q.api_source,
                    !.is_new_conversation = q.is_new_conversation]
     IN \/ /\ db_ok
           /\ ForeignKeyHolds(q.conversation_id)
           /\ \E t \in Readings(now) :
                LET rows == AssistantRows(q.conversation_id, ai_reply, t)
                IN /\ conversations' = rows.conversations
                   /\ messages' = rows.messages
                   /\ next_msg' = next_msg + 1
                   /\ now' = t
                   /\ req' = [req EXCEPT ![w] =
                                Done([q EXCEPT !.ai_reply = ai_reply,
                                               !.reply_rows = {m \in DOMAIN rows.messages :
                                                                 m \notin DOMAIN messages}],
                                     resp)]
           /\ UNCHANGED <<config, accounts, next_conv, deleted>>
        \/ /\ ~db_ok \/ ~ForeignKeyHolds(q.conversation_id)
           /\ req' = [req EXCEPT ![w] =
                        OfflineSaveFailed([q EXCEPT !.ai_reply = ai_reply], resp)]
           /\ UNCHANGED <<config, accounts, store, now>>

\* A success body that also carries the error field of the offline body.
ReplyRespWithError(q) ==
  [NoResp EXCEPT
     !.status = 200,
     !.keys = {"reply", "conversation_id", "backup_used", "offline", "error",
               "api_source", "is_new_conversation"},
     !.reply = q.ai_reply, !.conversation_id = q.conversation_id,
     !.backup_used = q.used_backup, !.offline = FALSE,
     !.error = q.error_message,
     !.api_source = q.api_source,
     !.is_new_conversation = q.is_new_conversation]

\* The body chat() returns with a provider's reply.
ReplyResp(q) ==
  [NoResp EXCEPT
     !.status = 200,
     !.keys = {"reply", "conversation_id", "backup_used", "offline",
               "api_source", "is_new_conversation"},
     !.reply = q.ai_reply, !.conversation_id = q.conversation_id,
     !.backup_used = q.used_backup, !.offline = FALSE,
     !.api_source = q.api_source,
     !.is_new_conversation = q.is_new_conversation]

\* A handler of the failed save that returns the reply all the same.
ReplySaveFailedReturnsReply(q) ==
  Done([q EXCEPT !.save_failed = "reply"], ReplyResp(q))

\* `except Exception` around the save of the provider's reply: rollback, 500.
ReplySaveFailed(q) ==
  Done([q EXCEPT !.save_failed = "reply"], ErrorResp(500, <<"db_save_reply">>))

\* `if ai_reply:` of chat(): the provider's reply saved and returned, or
\* 500 when the store refuses it.
ChatSaveReply(w, db_ok) ==
  /\ req[w].pc = "reply"
  /\ req[w].kind = "chat"
  /\ req[w].ai_reply # <<>>
  /\ LET q == req[w]
     IN \/ /\ db_ok
           /\ ForeignKeyHolds(q.conversation_id)
           /\ \E t \in Readings(now) :
                LET rows == AssistantRows(q.conversation_id, q.ai_reply, t)
                IN /\ conversations' = rows.conversations
                   /\ messages' = rows.messages
                   /\ next_msg' = next_msg + 1
                   /\ now' = t
                   /\ req' = [req EXCEPT ![w] =
                                Done([q EXCEPT !.reply_rows = {m \in DOMAIN rows.messages :
                                                                 m \notin DOMAIN messages}],
                                     ReplyResp(q))]
           /\ UNCHANGED <<config, accounts, next_conv, deleted>>
        \/ /\ ~db_ok \/ ~ForeignKeyHolds(q.conversation_id)
           /\ req' = [req EXCEPT ![w] = ReplySaveFailed(q)]
           /\ UNCHANGED <<config, accounts, store, now>>


(***************************************************************************)
(* POST /api/regenerate                                                    *)
(***************************************************************************)
\* `messages_for_api[-1].get("role") == "assistant"`
LastIsAssistant(history) ==
  history # <<>> /\ history[Len(history)].role = "assistant"

\* A transcript cut back to its last user message: every trailing assistant
\* entry popped.
RECURSIVE RegenTranscriptPopAll(_)
RegenTranscriptPopAll(history) ==
  IF LastIsAssistant(history)
  THEN RegenTranscriptPopAll(SubSeq(history, 1, Len(history) - 1))
  ELSE history

\* messages_for_api: the history, its last entry popped if an assistant's.
RegenTranscript(history) ==
  IF LastIsAssistant(history) THEN SubSeq(history, 1, Len(history) - 1) ELSE history

\* regenerate() up to the first provider call.
RegenReceive(w, form, messages_history, conversation_id) ==
  /\ Free(w)
  /\ LET q0 == [Idle EXCEPT !.kind = "regenerate"]
         q == [q0 EXCEPT !.conversation_id = conversation_id,
                         !.messages_history = messages_history]
         reject(status, error) == Done(q, ErrorResp(status, error))
     IN req' = [req EXCEPT ![w] =
          CASE form = "not_json" -> Done(q0, ErrorResp(415, <<"not_json">>))
            [] form = "bad_params" -> Done(q0, ErrorResp(500, <<"unexpected">>))
            [] form = "json" /\ conversation_id = NoId -> reject(400, <<"id_required">>)
            [] form = "json" /\ conversation_id # NoId /\ messages_history = <<>> ->
                 reject(400, <<"no_messages">>)
            [] form = "json" /\ conversation_id # NoId /\ messages_history # <<>>
               /\ ~Resolves(conversation_id) -> reject(404, <<"not_found">>)
            [] form = "json" /\ conversation_id # NoId /\ messages_history # <<>>
               /\ Resolves(conversation_id)
               /\ RegenTranscript(messages_history) = <<>> ->
                 reject(400, <<"not_enough_messages">>)
            [] OTHER ->
                 AfterTranscript(
                   [q EXCEPT !.messages_for_api = RegenTranscript(messages_history),
                             !.last_msg_was_assistant = LastIsAssistant(messages_history)])]
  /\ UNCHANGED <<config, accounts, store, now>>

\* A regenerate that falls back to the canned reply as chat() does.
RegenFailCanned(w) ==
  /\ req[w].pc = "reply"
  /\ req[w].kind = "regenerate"
  /\ req[w].ai_reply = <<>>
  /\ Resolves(req[w].conversation_id)
  /\ LET rows == AssistantRows(req[w].conversation_id, default_offline_response, now)
     IN /\ conversations' = rows.conversations
        /\ messages' = rows.messages
        /\ next_msg' = next_msg + 1
        /\ req' = [req EXCEPT ![w] =
                     Done(req[w], [NoResp EXCEPT !.status = 200,
                                                 !.keys = {"reply", "offline"},
                                                 !.reply = default_offline_response,
                                                 !.offline = TRUE])]
  /\ UNCHANGED <<config, accounts, next_conv, deleted, now>>

\* `if not ai_reply:` of regenerate(): 503, nothing written.
RegenFail(w) ==
  /\ req[w].pc = "reply"
  /\ req[w].kind = "regenerate"
  /\ req[w].ai_reply = <<>>
  /\ req' = [req EXCEPT ![w] =
               Done(req[w], ErrorResp(503, <<"regenerate_failed">> \o req[w].error_message))]
  /\ UNCHANGED <<config, accounts, store, now>>

\* A SELECT without the role filter: the most recent rows of any role.
LastRowsAnyRole(cid) ==
  {m \in MessagesOf(messages, cid) :
     \A x \in MessagesOf(messages, cid) : messages[x].created_at <= messages[m].created_at}

\* The rows the SELECT ... ORDER BY created_at DESC of regenerate() can
\* return first: the assistant messages of the conversation with the
\* greatest created_at.
LastAssistantRows(cid) ==
  LET A == {m \in MessagesOf(messages, cid) : messages[m].role = "assistant"}
  IN {m \in A : \A x \in A : messages[x].created_at <= messages[m].created_at}

\* A rewrite that leaves created_at as it was.
RegeneratedContentOnly(row, ai_reply, t) == [row EXCEPT !.content = ai_reply]

\* The message rewritten in place.
Regenerated(row, ai_reply, t) == [row EXCEPT !.content = ai_reply, !.created_at = t]

\* `if ai_reply:` of regenerate(): the last assistant row rewritten, or a
\* row added; updated_at set; 500 when the store refuses.
RegenSave(w, db_ok) ==
  /\ req[w].pc = "reply"
  /\ req[w].kind = "regenerate"
  /\ req[w].ai_reply # <<>>
  /\ LET q == req[w]
         cid == q.conversation_id
         resp == [NoResp EXCEPT
                    !.status = 200,
                    !.keys = {"reply", "conversation_id", "backup_used", "offline",
                              "api_source"},
                    !.reply = q.ai_reply, !.conversation_id = cid,
                    !.backup_used = q.used_backup, !.offline = FALSE,
                    !.api_source = q.api_source]
     IN \/ /\ db_ok
           /\ ForeignKeyHolds(cid)
           /\ q.last_msg_was_assistant
           /\ LastAssistantRows(cid) # {}
           /\ \E m \in LastAssistantRows(cid) :
              \E t \in Readings(now) :
                /\ messages' = [messages EXCEPT ![m] = Regenerated(@, q.ai_reply, t)]
                /\ conversations' = Touch(conversations, cid, t)
                /\ now' = t
                /\ req' = [req EXCEPT ![w] = Done([q EXCEPT !.updated_rows = {m}], resp)]
           /\ UNCHANGED <<config, accounts, next_conv, next_msg, deleted>>
        \/ /\ db_ok
           /\ ForeignKeyHolds(cid)
           /\ ~q.last_msg_was_assistant \/ LastAssistantRows(cid) = {}
           /\ \E t \in Readings(now) :
                LET rows == AssistantRows(cid, q.ai_reply, t)
                IN /\ messages' = rows.messages
                   /\ conversations' = Touch(rows.conversations, cid, t)
                   /\ next_msg' = next_msg + 1
                   /\ now' = t
                   /\ req' = [req EXCEPT ![w] =
                                Done([q EXCEPT !.reply_rows = {x \in DOMAIN rows.messages :
                                                                 x \notin DOMAIN messages}],
                                     resp)]
           /\ UNCHANGED <<config, accounts, next_conv, deleted>>
        \/ /\ ~db_ok \/ ~ForeignKeyHolds(cid)
           /\ req' = [req EXCEPT ![w] =
                        Done([q EXCEPT !.save_failed = "regenerate"],
                             ErrorResp(500, <<"db_save_regenerated">>))]
           /\ UNCHANGED <<config, accounts, store, now>>

(***************************************************************************)
(* GET and DELETE /api/conversations/<conversation_id>                     *)
(***************************************************************************)
\* The ids the route can carry.
RouteIds == (ClientIds \ {NoId}) \cup {ShortId}

get_conversation(w, conversation_id) ==
  /\ Free(w)
  /\ LET q == [Idle EXCEPT !.kind = "get", !.conversation_id = conversation_id]
     IN \/ /\ IdLen(conversation_id) # UuidLen
           /\ req' = [req EXCEPT ![w] = Done(q, ErrorResp(400, <<"invalid_id">>))]
        \/ /\ IdLen(conversation_id) = UuidLen
           /\ ~Resolves(conversation_id)
           /\ req' = [req EXCEPT ![w] = Done(q, ErrorResp(404, <<"not_found">>))]
        \/ /\ IdLen(conversation_id) = UuidLen
           /\ Resolves(conversation_id)
           /\ \E order \in get_ordered_messages(conversation_id) :
                req' = [req EXCEPT ![w] =
                          Done(q, [NoResp EXCEPT
                                     !.status = 200,
                                     !.keys = {"id", "title", "created_at", "updated_at",
                                               "messages"},
                                     !.conversation_id = conversation_id,
                                     !.listing = Listing(order)])]
  /\ UNCHANGED <<config, accounts, store, now>>

\* A delete of the conversation row alone.
DeleteNoCascade(conversation_id) ==
  [conversations |-> [c \in DOMAIN conversations \ {conversation_id} |-> conversations[c]],
   messages |-> messages]

\* db.session.delete(db_conversation) with cascade="all, delete-orphan".
DeleteCascade(conversation_id) ==
  [conversations |-> [c \in DOMAIN conversations \ {conversation_id} |-> conversations[c]],
   messages |-> [m \in DOMAIN messages \ MessagesOf(messages, conversation_id) |->
                   messages[m]]]

delete_conversation(w, conversation_id, db_ok) ==
  /\ Free(w)
  /\ LET q == [Idle EXCEPT !.kind = "delete", !.conversation_id = conversation_id]
     IN \/ /\ ~Resolves(conversation_id)
           /\ req' = [req EXCEPT ![w] = Done(q, ErrorResp(404, <<"not_found">>))]
           /\ UNCHANGED <<store>>
        \/ /\ Resolves(conversation_id)
           /\ db_ok
           /\ conversations' = DeleteCascade(conversation_id).conversations
           /\ messages' = DeleteCascade(conversation_id).messages
           /\ deleted' = deleted \cup {conversation_id}
           /\ req' = [req EXCEPT ![w] =
                        Done(q, [NoResp EXCEPT !.status = 200,
                                               !.keys = {"success", "message"}])]
           /\ UNCHANGED <<next_conv, next_msg>>
        \/ /\ Resolves(conversation_id)
           /\ ~db_ok
           /\ req' = [req EXCEPT ![w] =
                        Done([q EXCEPT !.save_failed = "delete"],
                             ErrorResp(500, <<"db_delete">>))]
           /\ UNCHANGED <<store>>
  /\ UNCHANGED <<config, accounts, now>>

\* The response leaves; the worker is free again.
Return(w) ==
  /\ req[w].pc = "done"
  /\ req' = [req EXCEPT ![w] = Idle]
  /\ UNCHANGED <<config, accounts, store, now>>

(***************************************************************************)
(* The admin pages: flask create-admin, /admin/users/create,               *)
(* /admin/users/<user_id>/edit and /admin/users/<user_id>/delete.  The     *)
(* forms are taken to be valid and to keep the user name and the e-mail;   *)
(* what is followed is the is_admin flag.                                  *)
(***************************************************************************)
\* The ids a route or a login session can carry.
UserIds == 1..MaxUsers

\* The rows with is_admin = True.
Admins(us) == {u \in DOMAIN us : us[u].is_admin}

\* db.select(db.func.count(User.id)).filter_by(is_admin=True)
admin_count == Cardinality(Admins(users))

\* @admin_required: the session's user is loaded and is an admin.
admin_required(current_user) ==
  current_user \in DOMAIN users /\ users[current_user].is_admin

\* INSERT INTO users.
AddUser(username, is_admin) ==
  [u \in DOMAIN users \cup {next_user} |->
     IF u = next_user THEN [username |-> username, is_admin |-> is_admin]
     ELSE users[u]]

\* An admin request is taken by the first free worker.
AdmFree(w) ==
  /\ adm[w].pc = "idle"
  /\ \A v \in Workers : v < w => adm[v].pc # "idle"

AdmDone(q, outcome) == [q EXCEPT !.pc = "done", !.outcome = outcome]

\* flask create-admin: the default admin is created if no admin exists and
\* the default user name is not taken.
create_admin_command ==
  /\ Admins(users) = {}
  /\ \A u \in DOMAIN users : users[u].username # "admin"
  /\ next_user <= MaxUsers
  /\ users' = AddUser("admin", TRUE)
  /\ next_user' = next_user + 1
  /\ UNCHANGED <<config, store, now, req, adm>>

\* POST /admin/users/create by an admin, with a new user name and e-mail.
admin_create_user(current_user, is_admin) ==
  /\ admin_required(current_user)
  /\ next_user <= MaxUsers
  /\ users' = AddUser("user", is_admin)
  /\ next_user' = next_user + 1
  /\ UNCHANGED <<config, store, now, req, adm>>

\* POST /admin/users/<user_id>/edit up to the safety check: the user is
\* loaded, and the last admin's rights are not taken away.
AdminEditReceive(w, current_user, user_id, is_admin) ==
  /\ AdmFree(w)
  /\ admin_required(current_user)
  /\ LET q == [AdmIdle EXCEPT !.kind = "edit_user", !.current_user = current_user,
                              !.user_id = user_id, !.is_admin = is_admin]
     IN adm' = [adm EXCEPT ![w] =
          IF user_id \notin DOMAIN users THEN AdmDone(q, "not_found")
          ELSE IF users[user_id].is_admin /\ ~is_admin /\ admin_count <= 1
          THEN AdmDone(q, "last_admin")
          ELSE [q EXCEPT !.pc = "commit", !.was_admin = users[user_id].is_admin]]
  /\ UNCHANGED <<config, store, now, req, users, next_user>>

\* user.is_admin = is_admin and db.session.commit(): the UPDATE is sent
\* when the flag differs from the one loaded, and fails when the row is
\* gone.
AdminEditCommit(w, db_ok) ==
  /\ adm[w].pc = "commit"
  /\ adm[w].kind = "edit_user"
  /\ LET q == adm[w]
         changed == q.is_admin # q.was_admin
     IN IF db_ok /\ (q.user_id \in DOMAIN users \/ ~changed)
        THEN /\ users' = IF changed
                         THEN [users EXCEPT ![q.user_id].is_admin = q.is_admin]
                         ELSE users
             /\ adm' = [adm EXCEPT ![w] = AdmDone(q, "updated")]
        ELSE /\ users' = users
             /\ adm' = [adm EXCEPT ![w] = AdmDone(q, "error")]
  /\ UNCHANGED <<config, store, now, req, next_user>>

\* POST /admin/users/<user_id>/delete up to the safety check: not the
\* admin's own account, not the last admin.
AdminDeleteReceive(w, current_user, user_id) ==
  /\ AdmFree(w)
  /\ admin_required(current_user)
  /\ LET q == [AdmIdle EXCEPT !.kind = "delete_user", !.current_user = current_user,
                              !.user_id = user_id]
     IN adm' = [adm EXCEPT ![w] =
          IF user_id \notin DOMAIN users THEN AdmDone(q, "not_found")
          ELSE IF user_id = current_user THEN AdmDone(q, "own_account")
          ELSE IF users[user_id].is_admin /\ admin_count <= 1
          THEN AdmDone(q, "last_admin")
          ELSE [q EXCEPT !.pc = "commit", !.was_admin = users[user_id].is_admin]]
  /\ UNCHANGED <<config, store, now, req, users, next_user>>

\* db.session.delete(user_to_delete) and db.session.commit().
AdminDeleteCommit(w, db_ok) ==
  /\ adm[w].pc = "commit"
  /\ adm[w].kind = "delete_user"
  /\ LET q == adm[w]
     IN IF db_ok /\ q.user_id \in DOMAIN users
        THEN /\ users' = [u \in DOMAIN users \ {q.user_id} |-> users[u]]
             /\ adm' = [adm EXCEPT ![w] = AdmDone(q, "deleted")]
        ELSE /\ users' = users
             /\ adm' = [adm EXCEPT ![w] = AdmDone(q, "error")]
  /\ UNCHANGED <<config, store, now, req, next_user>>

\* The redirect leaves; the worker is free again.
AdmReturn(w) ==
  /\ adm[w].pc = "done"
  /\ adm' = [adm EXCEPT ![w] = AdmIdle]
  /\ UNCHANGED <<config, store, now, req, users, next_user>>

Forms == {"not_json", "bad_params", "json"}

\* The messages.id sequence is cut off after `cap` rows.
Within(cap) == next_msg' <= cap + 1

(***************************************************************************)
(* Spec: every handler, requests served one at a time by worker 1.         *)
(***************************************************************************)
Next ==
  \/ \E form \in Forms, text \in ChatTexts, id \in ClientIds, db_ok \in BOOLEAN :
       ChatReceive(1, form, text, id, db_ok) /\ Within(MaxMsgs)
  \/ ChatHistory(1)
  \/ \E out \in OpenRouterOutcomes : CallOpenRouter(1, out)
  \/ \E out \in GeminiOutcomes : CallGemini(1, out)
  \/ \E db_ok \in BOOLEAN : ChatOffline(1, db_ok) /\ Within(MaxMsgs)
  \/ \E db_ok \in BOOLEAN : ChatSaveReply(1, db_ok) /\ Within(MaxMsgs)
  \/ \E form \in Forms, history \in Histories, id \in ClientIds :
       RegenReceive(1, form, history, id)
  \/ RegenFail(1)
  \/ \E db_ok \in BOOLEAN : RegenSave(1, db_ok) /\ Within(MaxMsgs)
  \/ \E id \in RouteIds : get_conversation(1, id)
  \/ \E id \in RouteIds, db_ok \in BOOLEAN : delete_conversation(1, id, db_ok)
  \/ Return(1)

Spec == Init /\ [][Next]_vars

(***************************************************************************)
(* SpecChat: chat turns alone, with messages that hold a keyword in the    *)
(* middle, two keywords, or none.                                          *)
(***************************************************************************)
OfflineTexts == {TextBlank, TextMarhaba, TextThanks, TextBoth, TextHi}

NextChat ==
  \/ \E text \in OfflineTexts, id \in ClientIds, db_ok \in BOOLEAN :
       ChatReceive(1, "json", text, id, db_ok) /\ Within(MaxMsgs)
  \/ ChatHistory(1)
  \/ \E out \in OpenRouterOutcomes : CallOpenRouter(1, out)
  \/ \E out \in GeminiOutcomes : CallGemini(1, out)
  \/ \E db_ok \in BOOLEAN : ChatOffline(1, db_ok) /\ Within(MaxMsgs)
  \/ \E db_ok \in BOOLEAN : ChatSaveReply(1, db_ok) /\ Within(MaxMsgs)
  \/ Return(1)

SpecChat == Init /\ [][NextChat]_vars

(***************************************************************************)
(* SpecRegen: chat turns and regenerations of well-formed requests, one    *)
(* message longer than Spec, so that a regeneration meets a conversation   *)
(* of two turns.                                                           *)
(***************************************************************************)
RegenHistories == { <<HistUser>>, <<HistUser, HistAssistant>> }

IssuedIds == {NoId} \cup (1..(next_conv - 1))

NextRegen ==
  \/ \E id \in IssuedIds, db_ok \in BOOLEAN :
       ChatReceive(1, "json", TextHi, id, db_ok) /\ Within(MaxMsgs + 1)
  \/ ChatHistory(1)
  \/ \E out \in OpenRouterOutcomes : CallOpenRouter(1, out)
  \/ \E out \in GeminiOutcomes : CallGemini(1, out)
  \/ \E db_ok \in BOOLEAN : ChatOffline(1, db_ok) /\ Within(MaxMsgs + 1)
  \/ \E db_ok \in BOOLEAN : ChatSaveReply(1, db_ok) /\ Within(MaxMsgs + 1)
  \/ \E history \in RegenHistories, id \in IssuedIds :
       RegenReceive(1, "json", history, id)
  \/ RegenFail(1)
  \/ \E db_ok \in BOOLEAN : RegenSave(1, db_ok) /\ Within(MaxMsgs + 1)
  \/ Return(1)

SpecRegen == Init /\ [][NextRegen]_vars

(***************************************************************************)
(* SpecLifecycle: chat turns, one of them with a message longer than a     *)
(* title, and deletes.                                                     *)
(***************************************************************************)
TitleTexts == {TextHi, TextLong}

NextLifecycle ==
  \/ \E text \in TitleTexts, id \in ClientIds, db_ok \in BOOLEAN :
       ChatReceive(1, "json", text, id, db_ok) /\ Within(MaxMsgs)
  \/ ChatHistory(1)
  \/ \E out \in OpenRouterOutcomes : CallOpenRouter(1, out)
  \/ \E out \in GeminiOutcomes : CallGemini(1, out)
  \/ \E db_ok \in BOOLEAN : ChatOffline(1, db_ok) /\ Within(MaxMsgs)
  \/ \E db_ok \in BOOLEAN : ChatSaveReply(1, db_ok) /\ Within(MaxMsgs)
  \/ \E id \in RouteIds, db_ok \in BOOLEAN : delete_conversation(1, id, db_ok)
  \/ Return(1)

SpecLifecycle == Init /\ [][NextLifecycle]_vars

(***************************************************************************)
(* SpecInterleave: chat turns served by two workers at once, as a server   *)
(* that dispatches requests concurrently does, one message longer than     *)
(* Spec: two user messages and a reply.  The store takes every save.       *)
(***************************************************************************)

TurnOpenRouterOutcomes ==
  { [kind |-> "choices", content |-> <<" ", "OR_TEXT", " ">>],
    [kind |-> "timeout", content |-> <<>>] }

NextInterleave ==
  \/ \E w \in Workers, id \in IssuedIds :
       ChatReceive(w, "json", TextHi, id, TRUE) /\ Within(MaxMsgs + 1)
  \/ \E w \in Workers : ChatHistory(w)
  \/ \E w \in Workers, out \in TurnOpenRouterOutcomes : CallOpenRouter(w, out)
  \/ \E w \in Workers, out \in GeminiOutcomes : CallGemini(w, out)
  \/ \E w \in Workers : ChatOffline(w, TRUE) /\ Within(MaxMsgs + 1)
  \/ \E w \in Workers : ChatSaveReply(w, TRUE) /\ Within(MaxMsgs + 1)
  \/ \E w \in Workers : Return(w)

SpecInterleave == Init /\ [][NextInterleave]_vars

(***************************************************************************)
(* SpecRace: chat turns, regenerations and deletes served by two workers   *)
(* at once, so that a conversation can be deleted while a request on it    *)
(* waits for a provider.  The store takes every save it can.               *)
(***************************************************************************)
GivenIds == 1..(next_conv - 1)

NextRace ==
  \/ \E w \in Workers, id \in IssuedIds :
       ChatReceive(w, "json", TextHi, id, TRUE) /\ Within(MaxMsgs)
  \/ \E w \in Workers : ChatHistory(w)
  \/ \E w \in Workers, out \in TurnOpenRouterOutcomes : CallOpenRouter(w, out)
  \/ \E w \in Workers, out \in GeminiOutcomes : CallGemini(w, out)
  \/ \E w \in Workers : ChatOffline(w, TRUE) /\ Within(MaxMsgs)
  \/ \E w \in Workers : ChatSaveReply(w, TRUE) /\ Within(MaxMsgs)
  \/ \E w \in Workers, history \in RegenHistories, id \in GivenIds :
       RegenReceive(w, "json", history, id)
  \/ \E w \in Workers : RegenFail(w)
  \/ \E w \in Workers : RegenSave(w, TRUE) /\ Within(MaxMsgs)
  \/ \E w \in Workers, id \in GivenIds : delete_conversation(w, id, TRUE)
  \/ \E w \in Workers : Return(w)

SpecRace == Init /\ [][NextRace]_vars

(***************************************************************************)
(* SpecAdmin: the admin pages, served by two workers at once.              *)
(***************************************************************************)
NextAdmin ==
  \/ create_admin_command
  \/ \E current_user \in UserIds, is_admin \in BOOLEAN :
       admin_create_user(current_user, is_admin)
  \/ \E w \in Workers, current_user \in UserIds, user_id \in UserIds,
        is_admin \in BOOLEAN :
       AdminEditReceive(w, current_user, user_id, is_admin)
  \/ \E w \in Workers, db_ok \in BOOLEAN : AdminEditCommit(w, db_ok)
  \/ \E w \in Workers, current_user \in UserIds, user_id \in UserIds :
       AdminDeleteReceive(w, current_user, user_id)
  \/ \E w \in Workers, db_ok \in BOOLEAN : AdminDeleteCommit(w, db_ok)
  \/ \E w \in Workers : AdmReturn(w)

SpecAdmin == Init /\ [][NextAdmin]_vars

(***************************************************************************)
(* Properties.                                                             *)
(***************************************************************************)
\* A provider is being called, or has been called, for request q.
AtProvider(q) ==
  q.pc \in {"openrouter", "gemini"} \/ q.openrouter_calls + q.gemini_calls > 0

\* The rows request q has inserted so far.
InsertedBy(q) == q.user_rows \cup q.reply_rows

\* C1: in a chat turn whose trimmed message is not empty, by the time a
\* provider is being called or has been called the turn has committed exactly
\* one new message, and that message is a user message of the turn's
\* conversation holding the turn's text.
C1_UserMessageCommittedFirst ==
  \A w \in Workers :
    LET q == req[w]
    IN (q.kind = "chat" /\ q.user_message # <<>> /\ AtProvider(q)) =>
         \E m \in DOMAIN messages :
           /\ q.user_rows = {m}
           /\ messages[m].role = "user"
           /\ messages[m].content = q.user_message
           /\ messages[m].conversation_id = q.conversation_id
           /\ {x \in InsertedBy(q) \cap DOMAIN messages : messages[x].role = "user"} = {m}

C1_Witness ==
  \E w \in Workers :
    /\ req[w].kind = "chat"
    /\ req[w].openrouter_calls = 1
    /\ req[w].gemini_calls = 1
    /\ req[w].user_rows # {}

Occurs(key, text) ==
  \E a \in 0..(Len(text) - Len(key)) :
    \A k \in 1..Len(key) : LowerChar(text[a + k]) = LowerChar(key[k])

\* C3: the reply of a chat turn answered offline is the table's reply for a
\* key that occurs in the user message, letter case aside, and is the
\* default reply when no key occurs in it.
C3_OfflineReplyFromTable ==
  \A w \in Workers :
    LET q == req[w]
    IN (q.kind = "chat" /\ q.pc = "done" /\ q.resp.status = 200 /\ q.resp.offline) =>
         \/ \E i \in 1..Len(OfflineKeys) :
              /\ Occurs(OfflineKeys[i], q.user_message)
              /\ q.resp.reply = OfflineReplies[i]
         \/ /\ \A i \in 1..Len(OfflineKeys) : ~Occurs(OfflineKeys[i], q.user_message)
            /\ q.resp.reply = default_offline_response

C3_Witness ==
  \E w \in Workers :
    /\ req[w].kind = "chat"
    /\ req[w].pc = "done"
    /\ req[w].resp.offline
    /\ req[w].openrouter_calls = 1
    /\ req[w].user_message = Strip(TextThanks)
    /\ req[w].resp.reply = <<"REPLY_SHUKRAN">>

\* Worker w's regenerate saves its reply and answers 200 in this step.
RegenSaved(w) ==
  /\ req[w].kind = "regenerate"
  /\ req[w].pc = "reply"
  /\ req'[w].pc = "done"
  /\ req'[w].resp.status = 200

\* The transcript a client supplied ends with a message of this role.
EndsWith(history, role) == history # <<>> /\ history[Len(history)].role = role

\* The stored conversation cid ends with a message of this role: its last
\* message by created_at, the later id among equal instants.
StoredEndsWith(cid, role) ==
  \E m \in MessagesOf(messages, cid) :
    /\ messages[m].role = role
    /\ \A x \in MessagesOf(messages, cid) :
         \/ messages[x].created_at < messages[m].created_at
         \/ messages[x].created_at = messages[m].created_at /\ x <= m

\* Every row of the store but those of K is left as it was.
SameBut(K) ==
  \A x \in DOMAIN messages \ K : x \in DOMAIN messages' /\ messages'[x] = messages[x]

C6_DeleteCascades ==
  [][/\ \A c \in deleted' :
          c \notin DOMAIN conversations' /\ MessagesOf(messages', c) = {}
     /\ \A w \in Workers :
          (/\ req[w].pc = "idle"
           /\ req'[w].kind = "get"
           /\ req'[w].conversation_id \in deleted) =>
            req'[w].pc = "done" /\ req'[w].resp.status = 404]_vars

C6_Witness ==
  \E w \in Workers :
    /\ req[w].kind = "get"
    /\ req[w].pc = "done"
    /\ req[w].conversation_id \in deleted
    /\ req[w].resp.status = 404
    /\ next_msg > 1

\* C7: a chat turn with the message "marhaba" that opens a new conversation
\* while no provider key is configured, and whose two saves the store
\* takes, answers 200 with offline = TRUE and the table's reply for that
\* key; the store then holds exactly two messages of the new conversation,
\* the user message and after it the assistant message with that reply.
C7_OfflineGreetingScenario ==
  \A w \in Workers :
    LET q == req[w]
    IN (/\ q.kind = "chat" /\ q.pc = "done"
        /\ ~OPENROUTER_API_KEY /\ ~GEMINI_API_KEY
        /\ q.is_new_conversation
        /\ q.user_message = KeyMarhaba
        /\ q.save_failed = "") =>
         /\ q.resp.status = 200
         /\ q.resp.offline
         /\ q.resp.reply = offline_responses(KeyMarhaba)
         /\ q.resp.conversation_id = q.conversation_id
         /\ \E u, a \in DOMAIN messages :
              /\ MessagesOf(messages, q.conversation_id) = {u, a}
              /\ u < a
              /\ messages[u].created_at <= messages[a].created_at
              /\ messages[u].role = "user"
              /\ messages[u].content = KeyMarhaba
              /\ messages[a].role = "assistant"
              /\ messages[a].content = offline_responses(KeyMarhaba)

C7_Witness ==
  \E w \in Workers :
    /\ req[w].kind = "chat" /\ req[w].pc = "done"
    /\ ~OPENROUTER_API_KEY /\ ~GEMINI_API_KEY
    /\ req[w].is_new_conversation
    /\ req[w].user_message = KeyMarhaba
    /\ req[w].save_failed = ""
    /\ req[w].resp.offline
    /\ Cardinality(MessagesOf(messages, req[w].conversation_id)) = 2

\* C8 as stated: when a chat turn is answered offline with a provider error
\* on record and its reply is saved, the conversation holds a message of
\* role "error" besides the assistant message.
C8_ErrorMessageStored ==
  \A w \in Workers :
    LET q == req[w]
    IN (/\ q.kind = "chat" /\ q.pc = "done"
        /\ q.resp.status = 200 /\ q.resp.offline
        /\ q.error_message # <<>>
        /\ q.reply_rows # {}) =>
         \E m \in MessagesOf(messages, q.conversation_id) : messages[m].role = "error"

\* C9 as stated: a chat request with a JSON body whose trimmed message is
\* empty is answered 400 and changes nothing in the store, and no provider
\* is called for it.
C9_EmptyMessageRejected ==
  [][\A w \in Workers :
       (/\ req[w].pc = "idle"
        /\ req'[w].kind = "chat"
        /\ req'[w].resp.status # 415
        /\ req'[w].user_message = <<>>) =>
         /\ req'[w].pc = "done"
         /\ req'[w].resp.status = 400
         /\ store' = store
         /\ ~AtProvider(req'[w])]_vars

\* C10: a chat turn whose first transaction the store refuses is over with
\* status 500 and the error of the failed save; no provider has been or
\* will be called for it, and it has inserted no row.
C10_UserSaveFailureAborts ==
  \A w \in Workers :
    LET q == req[w]
    IN q.save_failed = "user" =>
         /\ q.kind = "chat"
         /\ q.pc = "done"
         /\ q.resp.status = 500
         /\ q.resp.error = <<"db_save_user">>
         /\ ~AtProvider(q)
         /\ InsertedBy(q) = {}

C10_Witness ==
  \E w \in Workers :
    /\ req[w].save_failed = "user"
    /\ req[w].user_message # <<>>
    /\ OPENROUTER_API_KEY
    /\ GEMINI_API_KEY

\* The replies the providers of the behaviours explored can give, trimmed.
ProviderReplies ==
  {Strip(out.content) : out \in OpenRouterOutcomes \cup GeminiOutcomes} \ {<<>>}

\* The canned replies: the table's and the default.
CannedReplies ==
  {OfflineReplies[i] : i \in 1..Len(OfflineReplies)} \cup {default_offline_response}

C12_RegenerateFailsOutright ==
  [][\A w \in Workers :
       (/\ req[w].kind = "regenerate"
        /\ req[w].pc = "reply"
        /\ req[w].ai_reply = <<>>
        /\ req'[w] # req[w]) =>
         /\ req'[w].pc = "done"
         /\ req'[w].resp.status = 503
         /\ req'[w].resp.keys = {"error"}
         /\ req'[w].resp.reply = <<>>
         /\ ~req'[w].resp.offline
         /\ messages' = messages
         /\ conversations' = conversations
         /\ InsertedBy(req'[w]) = {} /\ req'[w].updated_rows = {}]_vars

C12_Witness ==
  \E w \in Workers :
    /\ req[w].kind = "regenerate" /\ req[w].pc = "done"
    /\ req[w].resp.status = 503
    /\ req[w].openrouter_calls = 1 /\ req[w].gemini_calls = 1
    /\ MessagesOf(messages, req[w].conversation_id) # {}

\* The errors a response carries for the store or the request, not for a
\* provider.
StoreErrors == {<<"db_save_user">>, <<"db_save_reply">>, <<"unexpected">>}

\* C13: a chat turn in which a provider was called ends with status 200
\* unless the store refused the reply's save or lost the conversation, and
\* then the error it returns is the store's; a chat response that carries a
\* provider's reply (offline = FALSE) has no error field, also when
\* OpenRouter failed before Gemini replied; a chat response with an error
\* of a provider is an offline response.
C13_ProviderErrorsOnlyOffline ==
  \A w \in Workers :
    LET q == req[w]
    IN (q.kind = "chat" /\ q.pc = "done") =>
         /\ (q.openrouter_calls + q.gemini_calls > 0) =>
              \/ q.resp.status = 200
              \/ q.resp.status = 500 /\ q.resp.error \in StoreErrors
         /\ (q.resp.status = 200 /\ ~q.resp.offline) =>
              /\ "error" \notin q.resp.keys
              /\ q.resp.error = <<>>
              /\ q.resp.reply \in ProviderReplies
         /\ (q.resp.error # <<>> /\ q.resp.error \notin StoreErrors
               /\ q.resp.status \notin {400, 415}) =>
              q.resp.status = 200 /\ q.resp.offline

C13_Witness ==
  \E w \in Workers :
    /\ req[w].kind = "chat" /\ req[w].pc = "done"
    /\ req[w].openrouter_calls = 1
    /\ req[w].openrouter_content = <<>>
    /\ req[w].gemini_calls = 1
    /\ req[w].resp.status = 200
    /\ ~req[w].resp.offline
    /\ req[w].resp.backup_used

\* Message x comes before message y in the order of a conversation:
\* by created_at, the earlier id first among equal instants.
Before(x, y) ==
  \/ messages[x].created_at < messages[y].created_at
  \/ messages[x].created_at = messages[y].created_at /\ x < y

\* C14 as stated: in every state, every assistant message has a message
\* right before it in the order of its conversation, and that message is a
\* user message or an error message.
C14_AssistantFollowsUser ==
  \A a \in DOMAIN messages :
    messages[a].role = "assistant" =>
      \E p \in MessagesOf(messages, messages[a].conversation_id) :
        /\ Before(p, a)
        /\ \A x \in MessagesOf(messages, messages[a].conversation_id) :
             Before(x, a) => (x = p \/ Before(x, p))
        /\ messages[p].role \in {"user", "error"}

\* C15: a chat turn or a regenerate posts to OpenRouter at most once and
\* to Gemini at most once; when the post to OpenRouter brings no reply the
\* request goes on to Gemini if its key is configured and to its last step
\* otherwise, and after Gemini it goes on to its last step.
C15_EachProviderOnce ==
  [][\A w \in Workers :
       /\ req'[w].openrouter_calls <= 1
       /\ req'[w].gemini_calls <= 1
       /\ (req[w].pc = "openrouter" /\ req'[w] # req[w]) =>
            /\ req'[w].openrouter_calls = 1
            /\ req'[w].pc \in {"gemini", "reply"}
            /\ req'[w].ai_reply = <<>> =>
                 (req'[w].pc = "gemini") = GEMINI_API_KEY
       /\ (req[w].pc = "gemini" /\ req'[w] # req[w]) => req'[w].pc = "reply"]_vars

C15_Witness ==
  \E w \in Workers :
    /\ req[w].kind = "regenerate"
    /\ req[w].pc = "done"
    /\ req[w].openrouter_calls = 1
    /\ req[w].openrouter_content = <<>>
    /\ req[w].gemini_calls = 1
    /\ req[w].ai_reply = <<>>

\* C16: no request is at or past a post to a provider whose key is not
\* configured; and with neither key configured a chat turn that stored its
\* user message ends offline with status 200, api_source "Offline" and no
\* error, recorded or returned.
C16_UnconfiguredProviderSkipped ==
  \A w \in Workers :
    LET q == req[w]
    IN /\ ~OPENROUTER_API_KEY =>
            /\ q.pc # "openrouter" /\ q.openrouter_calls = 0
            /\ q.openrouter_content = <<>>
       /\ ~GEMINI_API_KEY =>
            /\ q.pc # "gemini" /\ q.gemini_calls = 0 /\ ~q.used_backup
       /\ (/\ ~OPENROUTER_API_KEY /\ ~GEMINI_API_KEY
           /\ q.kind = "chat" /\ q.pc = "done" /\ q.user_rows # {}
           /\ q.conversation_id \notin deleted) =>
            /\ q.resp.status = 200
            /\ q.resp.offline
            /\ q.resp.api_source = "Offline"
            /\ q.error_message = <<>>
            /\ q.resp.error = <<>>

C16_Witness ==
  \E w \in Workers :
    /\ ~OPENROUTER_API_KEY /\ ~GEMINI_API_KEY
    /\ req[w].kind = "chat" /\ req[w].pc = "done"
    /\ req[w].user_rows # {}
    /\ req[w].resp.offline
    /\ req[w].resp.api_source = "Offline"

\* The rows that are in the store before and after a step and differ.
ChangedRows ==
  {m \in DOMAIN messages \cap DOMAIN messages' : messages'[m] # messages[m]}

\* C17: a step changes at most one stored message; a message is changed
\* only by the save of a regenerate, never by a chat turn; the message
\* changed is an assistant message of the regenerate's conversation, none
\* of whose assistant messages is more recent, and it keeps its role and
\* its conversation.
C17_MessagesImmutable ==
  [][/\ Cardinality(ChangedRows) <= 1
     /\ \A m \in ChangedRows :
          /\ messages'[m].role = messages[m].role
          /\ messages'[m].conversation_id = messages[m].conversation_id
          /\ messages[m].role = "assistant"
          /\ \E w \in Workers :
               /\ RegenSaved(w)
               /\ req'[w].updated_rows = {m}
               /\ messages[m].conversation_id = req[w].conversation_id
               /\ \A x \in MessagesOf(messages, req[w].conversation_id) :
                    messages[x].role = "assistant" =>
                      messages[x].created_at <= messages[m].created_at]_vars

C17_Witness ==
  \E w \in Workers :
    /\ req[w].kind = "regenerate" /\ req[w].pc = "done"
    /\ req[w].updated_rows # {}
    /\ Cardinality(MessagesOf(messages, req[w].conversation_id)) = 3
    /\ \A m \in req[w].updated_rows :
         messages[m].content = req[w].resp.reply /\ messages[m].role = "assistant"

\* C18 as stated: the listing a get returns is in the order of created_at,
\* the earlier id first among messages with equal created_at.
C18_ListingOrdered ==
  \A w \in Workers :
    LET q == req[w]
        l == q.resp.listing
    IN (q.kind = "get" /\ q.pc = "done" /\ q.resp.status = 200) =>
         \A i, j \in 1..Len(l) :
           i < j =>
             \/ l[i].created_at < l[j].created_at
             \/ l[i].created_at = l[j].created_at /\ l[i].id < l[j].id

\* C19: after every step each conversation's updated_at is not earlier
\* than its created_at; and a step that inserts a message leaves the
\* message's conversation with updated_at equal to the instant of the
\* insert, which is not earlier than the updated_at it had, and with the
\* created_at it had.
C19_UpdatedAtRefreshed ==
  [][/\ \A c \in DOMAIN conversations' :
          conversations'[c].created_at <= conversations'[c].updated_at
     /\ \A m \in DOMAIN messages' \ DOMAIN messages :
          LET c == messages'[m].conversation_id
          IN /\ c \in DOMAIN conversations'
             /\ conversations'[c].updated_at = now'
             /\ c \in DOMAIN conversations =>
                  /\ conversations[c].updated_at <= conversations'[c].updated_at
                  /\ conversations'[c].created_at = conversations[c].created_at]_vars

C19_Witness ==
  \E c \in DOMAIN conversations :
    /\ conversations[c].created_at < conversations[c].updated_at
    /\ \E m \in MessagesOf(messages, c) :
         /\ messages[m].role = "assistant"
         /\ messages[m].created_at = conversations[c].updated_at
    /\ \E w \in Workers : req[w].kind = "regenerate" /\ req[w].reply_rows # {}

\* Worker w's chat turn commits its first transaction in this step.
UserSaved(w) ==
  req[w].pc = "idle" /\ req'[w].kind = "chat" /\ req'[w].user_rows # {}

\* title is what a new conversation is named for user message u: u itself,
\* or its first TitleCut characters and three dots when u is longer than
\* TitleMax.
TitleOf(title, u) ==
  IF Len(u) <= TitleMax THEN title = u
  ELSE /\ Len(title) = TitleCut + 3
       /\ \A k \in 1..TitleCut : title[k] = u[k]
       /\ \A k \in (TitleCut + 1)..(TitleCut + 3) : title[k] = "."

\* C20: the first transaction of a chat turn that was sent no id, or an id
\* that does not resolve, adds exactly one conversation, under a new id,
\* titled after the user message, and puts the user message in it; sent an
\* id that resolves, it adds no conversation, puts the user message in that
\* one and keeps its title and created_at.  No other step adds a
\* conversation.  A chat turn that answers 200 returns the id of the
\* conversation of its user message.  A step removes a conversation only
\* as a successful delete of that conversation.
C20_ConversationLifecycle ==
  [][/\ \A w \in Workers :
          UserSaved(w) =>
            LET q == req'[w]
                c == q.conversation_id
            IN /\ \A m \in q.user_rows : messages'[m].conversation_id = c
               /\ IF q.sent_id \in DOMAIN conversations
                  THEN /\ c = q.sent_id
                       /\ ~q.is_new_conversation
                       /\ DOMAIN conversations' = DOMAIN conversations
                       /\ conversations'[c].title = conversations[c].title
                       /\ conversations'[c].created_at = conversations[c].created_at
                  ELSE /\ c \notin DOMAIN conversations
                       /\ c \notin deleted
                       /\ q.is_new_conversation
                       /\ DOMAIN conversations' = DOMAIN conversations \cup {c}
                       /\ TitleOf(conversations'[c].title, q.user_message)
     /\ ~(DOMAIN conversations' \subseteq DOMAIN conversations) =>
          \E w \in Workers : UserSaved(w)
     /\ \A w \in Workers :
          (req'[w].kind = "chat" /\ req'[w].pc = "done" /\ req'[w].resp.status = 200) =>
            /\ req'[w].resp.conversation_id = req'[w].conversation_id
            /\ req'[w].resp.is_new_conversation = req'[w].is_new_conversation
            /\ \A m \in req'[w].user_rows \cap DOMAIN messages' :
                 messages'[m].conversation_id = req'[w].resp.conversation_id
     /\ ~(DOMAIN conversations \subseteq DOMAIN conversations') =>
          \E w \in Workers :
            /\ req[w].pc = "idle"
            /\ req'[w].kind = "delete"
            /\ req'[w].resp.status = 200
            /\ DOMAIN conversations \ DOMAIN conversations' = {req'[w].conversation_id}]_vars

C20_Witness ==
  \E w \in Workers :
    /\ req[w].kind = "chat" /\ req[w].pc = "done"
    /\ req[w].sent_id = BogusUuid
    /\ req[w].user_message = TextLong
    /\ req[w].is_new_conversation
    /\ req[w].resp.status = 200
    /\ req[w].resp.conversation_id \in DOMAIN conversations
    /\ deleted # {}

\* C20 as stated, for the id: a chat turn that created a conversation
\* returns its id in the response.
C20_NewIdReturned ==
  \A w \in Workers :
    (/\ req[w].kind = "chat" /\ req[w].pc = "done"
     /\ req[w].user_rows # {} /\ req[w].is_new_conversation) =>
      req[w].resp.conversation_id = req[w].conversation_id

\* C21: a regenerate that reaches a provider hands it, and keeps for every
\* later provider call of the request, the supplied transcript without its
\* last entry when that entry is an assistant message and the supplied
\* transcript itself when that entry is a user message; no more than the
\* one entry is dropped.  A regenerate whose transcript is a single
\* assistant message ends with status 400, or 404 when its conversation
\* does not exist, and no provider is called for it.
C21_RegenerateTranscript ==
  \A w \in Workers :
    LET q == req[w]
        h == q.messages_history
        n == Len(h)
    IN q.kind = "regenerate" =>
         /\ (AtProvider(q) \/ q.pc = "reply") =>
              /\ n > 0
              /\ h[n].role = "assistant" =>
                   /\ Len(q.messages_for_api) = n - 1
                   /\ \A i \in 1..(n - 1) : q.messages_for_api[i] = h[i]
              /\ h[n].role = "user" => q.messages_for_api = h
              /\ q.messages_for_api # <<>>
         /\ (n = 1 /\ h[1].role = "assistant") =>
              /\ q.pc = "done"
              /\ q.resp.status \in {400, 404}
              /\ q.resp.keys = {"error"}
              /\ ~AtProvider(q)

C21_Witness ==
  \E w \in Workers :
    /\ req[w].kind = "regenerate"
    /\ req[w].messages_history = HistTwoReplies
    /\ req[w].openrouter_calls = 1
    /\ req[w].gemini_calls = 1
    /\ req[w].messages_for_api = <<HistUser, HistAssistant>>

\* The trimmed replies each provider of the behaviours explored can give.
OpenRouterReplies == {Strip(out.content) : out \in OpenRouterOutcomes} \ {<<>>}
GeminiReplies == {Strip(out.content) : out \in GeminiOutcomes} \ {<<>>}

\* C22 as stated: a chat response with status 200 has offline = TRUE
\* exactly when its reply is no provider's; its api_source is "OpenRouter"
\* exactly when the reply is OpenRouter's, "Gemini" exactly when it is
\* Gemini's, and "Offline" otherwise; backup_used is TRUE exactly when the
\* reply is Gemini's.
C22_SourceReported ==
  \A w \in Workers :
    LET q == req[w]
        r == q.resp
    IN (q.kind = "chat" /\ q.pc = "done" /\ r.status = 200) =>
         /\ r.offline = (r.reply \notin OpenRouterReplies \cup GeminiReplies)
         /\ (r.api_source = "OpenRouter") = (r.reply \in OpenRouterReplies)
         /\ (r.api_source = "Gemini") = (r.reply \in GeminiReplies)
         /\ (r.api_source = "Offline") = r.offline
         /\ r.backup_used = (r.reply \in GeminiReplies)

\* C23: a chat turn whose save of a provider's reply the store refused is
\* over with status 500 and the error of that save, and carries no reply;
\* the turn has inserted its user message and nothing else: the user
\* message is still in the store, in the turn's conversation, and no
\* message of that conversation was stored after it.
C23_ReplySaveFailure ==
  \A w \in Workers :
    LET q == req[w]
    IN q.save_failed = "reply" =>
         /\ q.kind = "chat"
         /\ q.pc = "done"
         /\ q.ai_reply \in ProviderReplies
         /\ q.resp.status = 500
         /\ q.resp.keys = {"error"}
         /\ q.resp.error = <<"db_save_reply">>
         /\ q.resp.reply = <<>>
         /\ q.reply_rows = {}
         /\ \E m \in DOMAIN messages :
              /\ q.user_rows = {m}
              /\ messages[m].role = "user"
              /\ messages[m].content = q.user_message
              /\ messages[m].conversation_id = q.conversation_id
              /\ \A x \in MessagesOf(messages, q.conversation_id) : x <= m

C23_Witness ==
  \E w \in Workers :
    /\ req[w].save_failed = "reply"
    /\ req[w].openrouter_calls = 1
    /\ req[w].gemini_calls = 1
    /\ req[w].used_backup
    /\ req[w].user_rows \subseteq DOMAIN messages
    /\ req[w].user_rows # {}

\* C24: a chat turn whose save of the canned reply the store refused is
\* over with status 200, offline = TRUE and the canned reply for its
\* message; the turn has inserted its user message and nothing else: the
\* user message is in the store and no message of its conversation was
\* stored after it.
C24_OfflineSaveFailure ==
  \A w \in Workers :
    LET q == req[w]
    IN q.save_failed = "offline" =>
         /\ q.kind = "chat"
         /\ q.pc = "done"
         /\ q.resp.status = 200
         /\ q.resp.offline
         /\ "reply" \in q.resp.keys /\ "offline" \in q.resp.keys
         /\ q.resp.reply \in CannedReplies
         /\ \A i \in 1..Len(OfflineKeys) :
              q.user_message = OfflineKeys[i] => q.resp.reply = OfflineReplies[i]
         /\ q.resp.conversation_id = q.conversation_id
         /\ q.reply_rows = {}
         /\ \E m \in DOMAIN messages :
              /\ q.user_rows = {m}
              /\ messages[m].role = "user"
              /\ messages[m].conversation_id = q.conversation_id
              /\ \A x \in MessagesOf(messages, q.conversation_id) : x <= m

C24_Witness ==
  \E w \in Workers :
    /\ req[w].save_failed = "offline"
    /\ req[w].user_message = KeyMarhaba
    /\ req[w].resp.reply = <<"REPLY_MARHABA">>
    /\ req[w].resp.status = 200
    /\ req[w].user_rows \subseteq DOMAIN messages
    /\ req[w].user_rows # {}

\* The role and content of stored message m, as a transcript carries it.
EntryOf(m) == [role |-> messages[m].role, content |-> messages[m].content]

\* C25: no step of a chat turn waits for another turn on its conversation.
\* While a chat turn on a conversation is anywhere between the commit of
\* its user message and the save of its reply, a chat request on the same
\* conversation is accepted by an idle worker and commits its own user
\* message; and the transcript a turn reads for its providers is the whole
\* conversation as stored at that moment, the messages of other turns in
\* flight included.
C25_TurnsInterleave ==
  [][/\ \A v, w \in Workers :
          (/\ v # w
           /\ req[v].kind = "chat"
           /\ req[v].pc \in {"history", "openrouter", "gemini", "reply"}
           /\ Resolves(req[v].conversation_id)
           /\ req[w].pc = "idle") =>
            ENABLED ChatReceive(w, "json", TextHi, req[v].conversation_id, TRUE)
     /\ \A w \in Workers :
          (/\ req[w].kind = "chat"
           /\ req[w].pc = "history"
           /\ req'[w].pc \notin {"history", "done"}) =>
            LET T == req'[w].messages_for_api
                S == MessagesOf(messages, req[w].conversation_id)
            IN /\ Len(T) = Cardinality(S)
               /\ \A m \in S :
                    Cardinality({i \in 1..Len(T) : T[i] = EntryOf(m)}) =
                      Cardinality({x \in S : EntryOf(x) = EntryOf(m)})]_vars

C25_Witness ==
  \E v, w \in Workers :
    /\ v # w
    /\ req[v].kind = "chat" /\ req[w].kind = "chat"
    /\ req[v].conversation_id = req[w].conversation_id
    /\ req[v].user_rows # {} /\ req[w].user_rows # {}
    /\ req[w].reply_rows = {} /\ req[w].pc # "done"
    /\ req[v].openrouter_calls = 1
    /\ Len(req[v].messages_for_api) = 2
    /\ \A i \in 1..2 : req[v].messages_for_api[i].role = "user"
    /\ \E r \in req[v].reply_rows :
         /\ r \in DOMAIN messages
         /\ messages[r].role = "assistant"
         /\ \A u \in req[v].user_rows \cup req[w].user_rows : u < r

\* C26 as stated: a regenerate with a JSON body whose conversation id is
\* missing is answered 400, one whose id does not resolve is answered 404;
\* neither calls a provider or changes the store.
C26_RegenerateIdChecked ==
  [][\A w \in Workers :
       LET id == req'[w].conversation_id
       IN (/\ req[w].pc = "idle"
           /\ req'[w].kind = "regenerate"
           /\ req'[w].resp.status # 415
           /\ id \notin DOMAIN conversations) =>
            /\ req'[w].pc = "done"
            /\ req'[w].resp.status = IF id = NoId THEN 400 ELSE 404
            /\ store' = store
            /\ ~AtProvider(req'[w])]_vars

\* C27: a step of a chat turn changes no stored message, adds messages
\* only to the turn's conversation, adds no conversation but the turn's,
\* leaves every other conversation's row (title, created_at, updated_at)
\* as it was, and leaves the title of the turn's conversation as it was
\* when that conversation existed before the step.  A chat turn that ends
\* with status 200 and no refused save has inserted exactly two messages,
\* both in its conversation: the user message with the turn's text and,
\* after it, one assistant message with the reply returned.
C27_ChatTurnFrame ==
  [][\A w \in Workers :
       LET q == req'[w]
           cid == q.conversation_id
       IN /\ (q.kind = "chat" /\ q # req[w]) =>
               /\ \A c \in DOMAIN conversations \ {cid} :
                    c \in DOMAIN conversations' /\ conversations'[c] = conversations[c]
               /\ DOMAIN conversations' \ DOMAIN conversations \subseteq {cid}
               /\ cid \in DOMAIN conversations =>
                    /\ cid \in DOMAIN conversations'
                    /\ conversations'[cid].title = conversations[cid].title
               /\ \A m \in DOMAIN messages :
                    m \in DOMAIN messages' /\ messages'[m] = messages[m]
               /\ \A m \in DOMAIN messages' \ DOMAIN messages :
                    messages'[m].conversation_id = cid
          /\ (/\ q.kind = "chat" /\ q.pc = "done"
              /\ q.resp.status = 200 /\ q.save_failed = "") =>
               \E u, a \in DOMAIN messages' :
                 /\ q.user_rows = {u} /\ q.reply_rows = {a}
                 /\ u < a
                 /\ messages'[u].created_at <= messages'[a].created_at
                 /\ messages'[u] = [messages'[u] EXCEPT !.conversation_id = cid,
                                                         !.role = "user",
                                                         !.content = q.user_message]
                 /\ messages'[a] = [messages'[a] EXCEPT !.conversation_id = cid,
                                                         !.role = "assistant",
                                                         !.content = q.resp.reply]]_vars

C27_Witness ==
  \E w \in Workers :
    /\ req[w].kind = "chat" /\ req[w].pc = "done"
    /\ req[w].resp.status = 200 /\ req[w].save_failed = ""
    /\ Cardinality(req[w].user_rows \cup req[w].reply_rows) = 2
    /\ \E c \in DOMAIN conversations :
         /\ c # req[w].conversation_id
         /\ MessagesOf(messages, c) # {}
         /\ conversations[c].updated_at < conversations[req[w].conversation_id].updated_at

\* C28: in every state every stored message is a message of a stored
\* conversation; and no message a request inserted or rewrote is in the
\* store once the request's conversation has been deleted, whether the
\* delete came after the request or while the request was between its
\* first transaction (or its lookup of the conversation) and its save of
\* the reply.
C28_NoOrphanMessages ==
  /\ \A m \in DOMAIN messages : messages[m].conversation_id \in DOMAIN conversations
  /\ \A w \in Workers :
       LET q == req[w]
       IN q.conversation_id \in deleted =>
            \A m \in InsertedBy(q) \cup q.updated_rows : m \notin DOMAIN messages

C28_Witness ==
  \E v, w \in Workers :
    /\ req[v].kind = "chat" /\ req[v].pc = "done"
    /\ req[v].user_rows # {}
    /\ req[v].gemini_calls = 1
    /\ req[v].save_failed = "reply"
    /\ req[v].conversation_id \in deleted
    /\ req[w].kind = "delete" /\ req[w].pc = "done"
    /\ req[w].conversation_id = req[v].conversation_id
    /\ req[w].resp.status = 200

\* C29: a step adds a conversation only together with a user message of
\* it; a chat turn whose first transaction the store refuses leaves the
\* conversations and the messages as they were, so neither the conversation
\* it would have created nor its message is stored; and after every step
\* each stored conversation has at least one message.
C29_CreationAtomic ==
  [][/\ \A c \in DOMAIN conversations' \ DOMAIN conversations :
          \E m \in DOMAIN messages' \ DOMAIN messages :
            /\ messages'[m].conversation_id = c
            /\ messages'[m].role = "user"
     /\ \A w \in Workers :
          (req[w].pc = "idle" /\ req'[w].save_failed = "user") =>
            /\ conversations' = conversations
            /\ messages' = messages
            /\ req'[w].resp.status = 500
     /\ \A c \in DOMAIN conversations' : MessagesOf(messages', c) # {}]_vars

C29_Witness ==
  \E w \in Workers :
    /\ req[w].kind = "chat" /\ req[w].pc = "done"
    /\ req[w].save_failed = "user"
    /\ req[w].sent_id = BogusUuid
    /\ DOMAIN conversations # {}
    /\ \A c \in DOMAIN conversations :
         \E m \in MessagesOf(messages, c) : messages[m].role = "user"

\* C30 as stated: once the table holds an admin, it holds one after every
\* step of the admin pages, whatever the interleaving of edit-user and
\* delete-user requests.
C30_AdminRemains ==
  [][Admins(users) # {} => Admins(users') # {}]_vars

====
